---------------------------- MODULE Spec2Model ----------------------------
(***************************************************************************)
(* A model of distarray's Context (src/distarray/context.py): the key      *)
(* registry kept by the coordinator, the namespaces of the IPython         *)
(* engines it drives, the construction of the MPI sub-communicator and     *)
(* the unary/binary dispatch protocol.                                     *)
(*                                                                         *)
(* Every method of Context is a blocking, sequential piece of Python, so   *)
(* each public call is one action.  Its body is written as a chain of      *)
(* operators over a record `st` that carries the whole program state plus  *)
(* the exception raised so far (`err`), the value returned (`ret`) and the *)
(* remote commands issued (`calls`); once `err` is set the remaining       *)
(* statements of the method are skipped, as an exception does in Python.   *)
(***************************************************************************)
EXTENDS Integers, Sequences, FiniteSets, TLC

\* ------------------------------------------------------------------ bounds
NEngines == 4        \* engines registered with the IPython cluster
NContexts == 2       \* Context objects the coordinator process may build
MaxDraws == 3        \* key names drawn after the Context of Spec is built
MaxDrawsTwo == 2     \* key names drawn after the Contexts of SpecTwo are built
NThreads == 2        \* coordinator threads that call _generate_key unsynchronised
MaxDrawsThreads == 4 \* key names the threads of SpecThreads draw

Engines == 0 .. (NEngines - 1)
Contexts == 1 .. NContexts
Threads == 1 .. NThreads
Scalars == {5, 7}    \* the scalar values the client pushes

VARIABLES
    COMM_PRIVATE,    \* engine id -> rank of that engine in COMM_PRIVATE
    globals,         \* engine id -> that engine's '__distarray' globals
    status,          \* per Context: "none", "live" or "failed" (__init__ raised)
    view,            \* per Context: view.targets
    targets,         \* per Context: self.targets
    key_records,     \* per Context: self.key_records (key -> list of engines)
    has_comm_key,    \* per Context: hasattr(self, '_comm_key')
    comm_key,        \* per Context: self._comm_key
    target_to_rank,  \* per Context: self.target_to_rank
    drawn,           \* every key name produced so far, in order; by: the
                     \* Context that entered it in its key_records (0: none);
                     \* local: the name never left the method that drew it
    limit,           \* the number of key names the behaviour may draw
    last,            \* the last call: the method, the Context, the key or the
                     \* kinds of operands it was given, what it raised and where
    thread           \* per thread: where it is in _generate_key, of which
                     \* Context, and its local variables key and targets

vars == << COMM_PRIVATE, globals, status, view, targets, key_records,
           has_comm_key, comm_key, target_to_rank, drawn, limit, last, thread >>

\* ------------------------------------------------------------------ helpers
SeqToSet(s) == {s[i] : i \in 1 .. Len(s)}
Image(f) == {f[x] : x \in DOMAIN f}
EmptyMap == [x \in {} |-> 0]
Bind(f, k, v) == [x \in (DOMAIN f) \cup {k} |-> IF x = k THEN v ELSE f[x]]
Remove(f, k) == [x \in (DOMAIN f) \ {k} |-> f[x]]
Merge(f, g) == [x \in (DOMAIN f) \cup (DOMAIN g) |-> IF x \in DOMAIN g THEN g[x] ELSE f[x]]

RECURSIVE Ascending(_)
Ascending(S) ==
    IF S = {} THEN << >>
    ELSE LET m == CHOOSE x \in S : \A y \in S : x <= y
         IN << m >> \o Ascending(S \ {m})

\* self._comm_key = None
None == 0

\* Values bound to names on an engine.
IntVal(n) == [kind |-> "int", val |-> n, keys |-> {}]
ListVal(S) == [kind |-> "list", val |-> 0, keys |-> S]
CommVal(r) == [kind |-> "comm", val |-> r, keys |-> {}]
COMM_NULL == CommVal(-1)

\* ------------------------------------------------- the engines (WorkerPool)
\* Index of the first occurrence of x in the sequence s (0 when absent).
IndexOf(s, x) ==
    IF x \in SeqToSet(s) THEN CHOOSE i \in 1 .. Len(s) : s[i] = x /\ \A j \in 1 .. (i - 1) : s[j] # x
    ELSE 0

\* A create_comm_with_list that looks at the ranks before it looks at the
\* length of the list.
create_comm_with_list_ranks_first(myrank, size, nodes) ==
    IF \E i \in 1 .. Len(nodes) : nodes[i] \notin 0 .. (size - 1)
    THEN [ok |-> FALSE, err |-> "InvalidRankError", comm |-> COMM_NULL]
    ELSE IF Len(nodes) > size THEN [ok |-> FALSE, err |-> "InvalidCommSizeError", comm |-> COMM_NULL]
    ELSE IF myrank \in SeqToSet(nodes)
    THEN [ok |-> TRUE, err |-> "none", comm |-> CommVal(IndexOf(nodes, myrank) - 1)]
    ELSE [ok |-> TRUE, err |-> "none", comm |-> COMM_NULL]

\* distarray.mpiutils.create_comm_with_list(nodes), run by the process whose
\* rank in COMM_PRIVATE is myrank; size is COMM_PRIVATE.Get_size().
create_comm_with_list(myrank, size, nodes) ==
    IF Len(nodes) > size THEN [ok |-> FALSE, err |-> "InvalidCommSizeError", comm |-> COMM_NULL]
    ELSE IF \E i \in 1 .. Len(nodes) : nodes[i] \notin 0 .. (size - 1)
    THEN [ok |-> FALSE, err |-> "InvalidRankError", comm |-> COMM_NULL]
    ELSE IF myrank \in SeqToSet(nodes)
    THEN [ok |-> TRUE, err |-> "none", comm |-> CommVal(IndexOf(nodes, myrank) - 1)]
    ELSE [ok |-> TRUE, err |-> "none", comm |-> COMM_NULL]

\* One engine runs one command in its namespace ns (names -> values).
\* A command that raises on the engine leaves ok = FALSE.
EngineRun(e, ns, cmd) ==
    CASE cmd.c = "import" -> [ns |-> ns, ok |-> TRUE]
      [] cmd.c = "create_comm_with_list" ->
            LET r == create_comm_with_list(COMM_PRIVATE[e], NEngines, cmd.args)
            IN IF r.ok THEN [ns |-> Bind(ns, cmd.key, r.comm), ok |-> TRUE]
               ELSE [ns |-> ns, ok |-> FALSE]
      [] cmd.c = "del" ->
            IF cmd.key \in DOMAIN ns
            THEN [ns |-> Remove(ns, cmd.key), ok |-> TRUE]
            ELSE [ns |-> ns, ok |-> FALSE]
      [] cmd.c = "globals" ->
            [ns |-> Bind(ns, cmd.key, ListVal(DOMAIN ns)), ok |-> TRUE]
      [] cmd.c = "Get_rank" ->
            IF cmd.args[1] \in DOMAIN ns /\ ns[cmd.args[1]].kind = "comm"
               /\ ns[cmd.args[1]] # COMM_NULL
            THEN [ns |-> Bind(ns, cmd.key, IntVal(ns[cmd.args[1]].val)), ok |-> TRUE]
            ELSE [ns |-> ns, ok |-> FALSE]
      [] cmd.c \in {"negative", "add", "zeros", "load"} ->
            IF \A i \in 1 .. Len(cmd.args) :
                   /\ cmd.args[i] \in DOMAIN ns
                   /\ ns[cmd.args[i]].kind = (IF cmd.c = "load" THEN "comm" ELSE "int")
            THEN [ns |-> Bind(ns, cmd.key,
                     IntVal(CASE cmd.c = "negative" -> 0 - ns[cmd.args[1]].val
                              [] cmd.c = "add" -> ns[cmd.args[1]].val + ns[cmd.args[2]].val
                              [] OTHER -> 0)),
                  ok |-> TRUE]
            ELSE [ns |-> ns, ok |-> FALSE]

\* view.execute(cmd, targets=tg, block=True): every engine of tg runs cmd,
\* one after the other entry of tg; ok is FALSE when some engine raised.
RECURSIVE view_execute(_, _, _)
view_execute(g, cmd, tg) ==
    IF tg = << >> THEN [g |-> g, ok |-> TRUE]
    ELSE LET e == Head(tg)
             Others(r) ==
                 LET rest == view_execute([g EXCEPT ![e] = r.ns], cmd, Tail(tg))
                 IN [g |-> rest.g, ok |-> r.ok /\ rest.ok]
         IN Others(EngineRun(e, g[e], cmd))

\* view.push(d, targets=tg, block=True)
view_push(g, d, tg) ==
    [e \in DOMAIN g |-> IF e \in SeqToSet(tg) THEN Merge(g[e], d) ELSE g[e]]

\* ----------------------------------------------------- the st record
Raise(st, e) == [st EXCEPT !.err = e]
\* raise at a given line of context.py
RaiseAt(st, e, line) == [st EXCEPT !.err = e, !.line = line]
Sent(st, rec) == [st EXCEPT !.calls = Append(@, rec)]
Failed(st) == st.err # "none"

\* Context._execute / view.execute with block=True
_execute(st, c, cmd, tg) ==
    IF Failed(st) THEN st
    ELSE LET Reply(r) ==
                 LET s1 == Sent([st EXCEPT !.globals = r.g],
                                [c |-> cmd.c, key |-> cmd.key, args |-> cmd.args,
                                 targets |-> tg, ok |-> r.ok])
                 IN IF r.ok THEN s1 ELSE Raise(s1, "RemoteError")
         IN Reply(view_execute(st.globals, cmd, tg))

\* A _push that stores on the first engine of self.targets only.
push_first_target(st, c, d) ==
    IF Failed(st) THEN st
    ELSE Sent([st EXCEPT !.globals = view_push(st.globals, d, SubSeq(st.targets[c], 1, 1))],
              [c |-> "push", key |-> 0, args |-> Ascending(DOMAIN d),
               targets |-> st.targets[c], ok |-> TRUE])

\* Context._push
_push(st, c, d) ==
    IF Failed(st) THEN st
    ELSE Sent([st EXCEPT !.globals = view_push(st.globals, d, st.targets[c])],
              [c |-> "push", key |-> 0, args |-> Ascending(DOMAIN d),
               targets |-> st.targets[c], ok |-> TRUE])

\* Context._pull: the values of name k on the engines of self.targets, in order
_pull(st, c, k) ==
    IF Failed(st) THEN st
    ELSE LET tg == st.targets[c]
             ok == \A i \in 1 .. Len(tg) : k \in DOMAIN st.globals[tg[i]]
             s1 == Sent(st, [c |-> "pull", key |-> k, args |-> << >>,
                             targets |-> tg, ok |-> ok])
         IN IF ok THEN [s1 EXCEPT !.ret = [i \in 1 .. Len(tg) |-> st.globals[tg[i]][k]]]
            ELSE Raise(s1, "RemoteError")


\* ------------------------------------------------------ key management
\* The names bound on some engine or entered in some key_records.
InUse(st) ==
    UNION {DOMAIN st.globals[e] : e \in DOMAIN st.globals}
    \cup UNION {DOMAIN st.key_records[c] : c \in DOMAIN st.key_records}

\* A key name generator that hands out the first name nobody holds at the
\* moment, so that the name of a deleted key comes back.
generate_key_name_reuse(st) ==
    LET n == CHOOSE x \in 1 .. (Len(st.drawn) + 1) :
                 x \notin InUse(st) /\ \A y \in 1 .. (x - 1) : y \in InUse(st)
    IN [st EXCEPT !.drawn = Append(@, [name |-> n, by |-> 0, local |-> FALSE]),
                  !.ret = n]

\* Context._generate_key_name: '__distarray_' + uuid4().hex.  uuid4 is
\* modelled as a source of names that never repeats: the n-th draw is n.
_generate_key_name(st) ==
    [st EXCEPT !.drawn = Append(@, [name |-> Len(@) + 1, by |-> 0, local |-> FALSE]),
               !.ret = Len(st.drawn) + 1]

\* A bookkeeping step that starts key_records afresh with the new key:
\* self.key_records = {key: targets}.
generate_key_record_alone(st, c, key, tg) ==
    [st EXCEPT !.key_records[c] = Bind(EmptyMap, key, tg), !.ret = key]

\* The second statement of Context._generate_key and its return:
\* self.key_records[key] = targets; return key
generate_key_record(st, c, key, tg) ==
    [st EXCEPT !.key_records[c] = Bind(@, key, tg), !.ret = key]

\* Context._generate_key(targets=tg)
_generate_key(st, c, tg) ==
    IF Failed(st) THEN st
    ELSE LET Record(s1) == [s1 EXCEPT !.key_records[c] = Bind(@, s1.ret, tg),
                                      !.drawn[Len(s1.drawn)].by = c]
         IN Record(_generate_key_name(st))

\* The key just drawn stays local to the method that drew it: no caller
\* of the Context ever holds it.
Local(st) == [st EXCEPT !.drawn[Len(st.drawn)].local = TRUE]

\* keys = [self._generate_key() for value in values]
RECURSIVE generate_keys(_, _, _)
generate_keys(st, c, n) ==
    IF n = 0 THEN [st EXCEPT !.ret = << >>]
    ELSE LET Add(keys, s2) == [s2 EXCEPT !.ret = Append(keys, s2.ret)]
             One(s1) == Add(s1.ret, _generate_key(s1, c, s1.targets[c]))
         IN One(generate_keys(st, c, n - 1))

\* A _key_and_push that pairs the keys with the values taken from the last
\* to the first.
key_and_push_reversed(st, c, values) ==
    IF Failed(st) THEN st
    ELSE LET PushAll(s1, keys) ==
                 [_push(s1, c, [k \in SeqToSet(keys) |->
                                  IntVal(values[Len(values) + 1 - IndexOf(keys, k)])])
                     EXCEPT !.ret = keys]
             Keys(s1) == PushAll(s1, s1.ret)
         IN Keys(generate_keys(st, c, Len(values)))

\* Context._key_and_push(*values): returns the tuple of keys
_key_and_push(st, c, values) ==
    IF Failed(st) THEN st
    ELSE LET PushAll(s1, keys) ==
                 [_push(s1, c, [k \in SeqToSet(keys) |-> IntVal(values[IndexOf(keys, k)])])
                     EXCEPT !.ret = keys]
             Keys(s1) == PushAll(s1, s1.ret)
         IN Keys(generate_keys(st, c, Len(values)))

\* Context.delete_engine_key(key, targets=tg)
delete_engine_key(st, c, key, tg) ==
    _execute(st, c, [c |-> "del", key |-> key, args |-> << >>], tg)

\* A delete_key that only forgets the key and leaves the engines alone.
delete_key_records_only(st, c, key) ==
    IF Failed(st) THEN st
    ELSE IF key \in DOMAIN st.key_records[c]
    THEN [st EXCEPT !.key_records[c] = Remove(@, key)]
    ELSE RaiseAt(st, "KeyError", 145)

\* A delete_key that deletes a key it does not know from the engines anyway.
delete_key_lenient(st, c, key) ==
    IF Failed(st) THEN st
    ELSE LET tg == IF key \in DOMAIN st.key_records[c]
                   THEN st.key_records[c][key] ELSE st.targets[c]
         IN [delete_engine_key(st, c, key, tg) EXCEPT
                !.err = "none",
                !.key_records[c] = IF key \in DOMAIN @ THEN Remove(@, key) ELSE @]

\* Context.delete_key
delete_key(st, c, key) ==
    IF Failed(st) THEN st
    ELSE IF key \in DOMAIN st.key_records[c]
    THEN LET Forget(s1) == IF Failed(s1) THEN s1
                           ELSE [s1 EXCEPT !.key_records[c] = Remove(@, key)]
         IN Forget(delete_engine_key(st, c, key, st.key_records[c][key]))
    ELSE RaiseAt(st, "KeyError", 145)

\* for key in keys_to_remove: self.delete_key(key)
RECURSIVE delete_keys(_, _, _)
delete_keys(st, c, order) ==
    IF order = << >> THEN st
    ELSE delete_keys(delete_key(st, c, Head(order)), c, Tail(order))

\* Context.cleanup_keys; order is the order in which the dict yields its keys
cleanup_keys(st, c, order) ==
    IF Failed(st) THEN st ELSE delete_keys(st, c, order)

\* The orders list(self.key_records.keys()) may have, up to the order of
\* deletes that succeed (they commute): when some tracked key cannot be
\* deleted, any set of deletable keys may come before the first such key.
KeyOrders(st, c) ==
    LET kr == st.key_records[c]
        bad == {k \in DOMAIN kr :
                  ~view_execute(st.globals, [c |-> "del", key |-> k, args |-> << >>], kr[k]).ok}
    IN IF bad = {} THEN {Ascending(DOMAIN kr)}
       ELSE {Ascending(D) \o << f >> : D \in SUBSET ((DOMAIN kr) \ bad), f \in bad}

\* The engines of tg whose key list (keylists[i] for tg[i]) holds key.
RECURSIVE engines_with(_, _, _)
engines_with(keylists, tg, key) ==
    IF tg = << >> THEN << >>
    ELSE (IF key \in Head(keylists).keys THEN << Head(tg) >> ELSE << >>)
         \o engines_with(Tail(keylists), Tail(tg), key)

\* A get_engine_keys that reports the names in key_records only.
get_engine_keys_tracked_only(st, c) ==
    IF Failed(st) THEN st
    ELSE LET tg == st.targets[c]
             Result(s4, keylists) ==
                 IF Failed(s4) THEN s4
                 ELSE [s4 EXCEPT !.ret =
                         [k \in UNION {keylists[i].keys : i \in 1 .. Len(keylists)}
                                  \cap DOMAIN s4.key_records[c]
                             |-> engines_with(keylists, tg, k)]]
             Delete(s3, globals_key) == Result(delete_key(s3, c, globals_key), s3.ret)
             Pull(s2, globals_key) == Delete(_pull(s2, c, globals_key), globals_key)
             Globals(s1, globals_key) ==
                 Pull(_execute(s1, c, [c |-> "globals", key |-> globals_key,
                                       args |-> << >>], tg), globals_key)
             Key(s1) == Globals(s1, s1.ret)
         IN Key(Local(_generate_key(st, c, tg)))

\* A get_engine_keys without delete_key(globals_key): the key of the lists
\* stays in key_records and on the engines.
get_engine_keys_keep_key(st, c) ==
    IF Failed(st) THEN st
    ELSE LET tg == st.targets[c]
             Result(s3) ==
                 IF Failed(s3) THEN s3
                 ELSE [s3 EXCEPT !.ret =
                         [k \in UNION {s3.ret[i].keys : i \in 1 .. Len(s3.ret)}
                             |-> engines_with(s3.ret, tg, k)]]
             Globals(s1, globals_key) ==
                 Result(_pull(_execute(s1, c, [c |-> "globals", key |-> globals_key,
                                               args |-> << >>], tg), c, globals_key))
             Key(s1) == Globals(s1, s1.ret)
         IN Key(Local(_generate_key(st, c, tg)))

\* Context.get_engine_keys: returns key -> list of engines holding it
get_engine_keys(st, c) ==
    IF Failed(st) THEN st
    ELSE LET tg == st.targets[c]
             Result(s4, keylists) ==
                 IF Failed(s4) THEN s4
                 ELSE [s4 EXCEPT !.ret =
                         [k \in UNION {keylists[i].keys : i \in 1 .. Len(keylists)}
                             |-> engines_with(keylists, tg, k)]]
             Delete(s3, globals_key) == Result(delete_key(s3, c, globals_key), s3.ret)
             Pull(s2, globals_key) == Delete(_pull(s2, c, globals_key), globals_key)
             Globals(s1, globals_key) ==
                 Pull(_execute(s1, c, [c |-> "globals", key |-> globals_key,
                                       args |-> << >>], tg), globals_key)
             Key(s1) == Globals(s1, s1.ret)
         IN Key(Local(_generate_key(st, c, tg)))

\* A clean_engine_keys that strips nothing.
clean_engine_keys_nothing(st, c, engine_keys) == engine_keys

\* Context.clean_engine_keys(engine_keys)
clean_engine_keys(st, c, engine_keys) ==
    IF st.comm_key[c] \in DOMAIN engine_keys
    THEN Remove(engine_keys, st.comm_key[c])
    ELSE engine_keys

\* Context.get_leftover_keys
get_leftover_keys(st, c) ==
    LET Clean(s1) == IF Failed(s1) THEN s1
                     ELSE [s1 EXCEPT !.ret = clean_engine_keys(s1, c, s1.ret)]
    IN Clean(get_engine_keys(st, c))

\* for key in leftover_keys: self.delete_engine_key(key, leftover_keys[key])
RECURSIVE delete_leftovers(_, _, _, _)
delete_leftovers(st, c, leftover_keys, order) ==
    IF order = << >> THEN st
    ELSE delete_leftovers(
             delete_engine_key(st, c, Head(order), leftover_keys[Head(order)]),
             c, leftover_keys, Tail(order))

\* Context.purge_keys: returns whether leftovers were found
purge_keys(st, c) ==
    LET Result(s2, leftover_keys) ==
            IF Failed(s2) THEN s2
            ELSE [s2 EXCEPT !.ret = (Cardinality(DOMAIN leftover_keys) > 0)]
        Delete(s1, leftover_keys) ==
            Result(delete_leftovers(s1, c, leftover_keys, Ascending(DOMAIN leftover_keys)),
                   leftover_keys)
        Leftover(s1) == IF Failed(s1) THEN s1 ELSE Delete(s1, s1.ret)
    IN Leftover(get_leftover_keys(st, c))

\* Context.cleanup_keys_checked(check)
cleanup_keys_checked(st, c, check, order) ==
    LET Check(s2) ==
            IF Failed(s2) THEN s2
            ELSE IF check /\ s2.ret # FALSE THEN RaiseAt(s2, "AssertionError", 245)
            ELSE s2
    IN Check(purge_keys(cleanup_keys(st, c, order), c))

\* Context.clear_comm_key
clear_comm_key(st, c) ==
    IF st.has_comm_key[c]
    THEN LET Clear(s1) == IF Failed(s1) THEN s1 ELSE [s1 EXCEPT !.comm_key[c] = None]
         IN Clear(delete_engine_key(st, c, st.comm_key[c], st.targets[c]))
    ELSE st


\* ------------------------------------------------------------ construction
\* A loop over the targets argument that appends an id once only.
RECURSIVE checked_targets_distinct(_, _)
checked_targets_distinct(tlist, all_targets) ==
    IF tlist = << >> THEN [targets |-> << >>, ok |-> TRUE]
    ELSE IF Head(tlist) \notin SeqToSet(all_targets) THEN [targets |-> << >>, ok |-> FALSE]
    ELSE LET rest == checked_targets_distinct(Tail(tlist), all_targets)
         IN [targets |-> (IF Head(tlist) \in SeqToSet(rest.targets) THEN << >>
                          ELSE << Head(tlist) >>) \o rest.targets,
             ok |-> rest.ok]

\* The loop of Context.__init__ over the targets argument: the list built
\* before the first id that is not in the view, and whether there is one.
RECURSIVE checked_targets(_, _)
checked_targets(tlist, all_targets) ==
    IF tlist = << >> THEN [targets |-> << >>, ok |-> TRUE]
    ELSE IF Head(tlist) \notin SeqToSet(all_targets) THEN [targets |-> << >>, ok |-> FALSE]
    ELSE LET rest == checked_targets(Tail(tlist), all_targets)
         IN [targets |-> << Head(tlist) >> \o rest.targets, ok |-> rest.ok]

\* A _make_intracomm that creates the communicator first and compares the
\* ranks of the view with range(comm_size) afterwards.
make_intracomm_check_last(st, c) ==
    IF Failed(st) THEN st
    ELSE LET vw == st.view[c]
             tg == st.targets[c]
             rank_map == [e \in SeqToSet(vw) |-> COMM_PRIVATE[e]]
             ranks == [i \in 1 .. Len(tg) |-> rank_map[tg[i]]]
             Check(s4) == IF Failed(s4) THEN s4
                          ELSE IF Image(rank_map) # 0 .. (NEngines - 1)
                          THEN RaiseAt(s4, "ValueError", 86)
                          ELSE s4
             Create(s3) ==
                 Check(_execute([s3 EXCEPT !.comm_key[c] = s3.ret, !.has_comm_key[c] = TRUE],
                                c, [c |-> "create_comm_with_list", key |-> s3.ret,
                                    args |-> ranks], vw))
         IN Create(_generate_key_name(st))

\* A _make_intracomm that sends create_comm_with_list to the engines of
\* self.targets only.
make_intracomm_targets_only(st, c) ==
    IF Failed(st) THEN st
    ELSE LET vw == st.view[c]
             tg == st.targets[c]
             rank_map == [e \in SeqToSet(vw) |-> COMM_PRIVATE[e]]
             ranks == [i \in 1 .. Len(tg) |-> rank_map[tg[i]]]
             s2 == Sent(Sent(st, [c |-> "get_rank", key |-> 0, args |-> << >>,
                                  targets |-> vw, ok |-> TRUE]),
                        [c |-> "get_size", key |-> 0, args |-> << >>,
                         targets |-> vw, ok |-> TRUE])
         IN IF Image(rank_map) # 0 .. (NEngines - 1)
            THEN RaiseAt(s2, "ValueError", 86)
            ELSE LET Create(s3) ==
                         _execute([s3 EXCEPT !.comm_key[c] = s3.ret, !.has_comm_key[c] = TRUE],
                                  c, [c |-> "create_comm_with_list", key |-> s3.ret,
                                      args |-> ranks], tg)
                 IN Create(_generate_key_name(s2))

\* Context._make_intracomm
_make_intracomm(st, c) ==
    IF Failed(st) THEN st
    ELSE LET vw == st.view[c]
             tg == st.targets[c]
             rank_map == [e \in SeqToSet(vw) |-> COMM_PRIVATE[e]]
             s1 == Sent(st, [c |-> "get_rank", key |-> 0, args |-> << >>,
                             targets |-> vw, ok |-> TRUE])
             ranks == [i \in 1 .. Len(tg) |-> rank_map[tg[i]]]
             comm_size == NEngines
             s2 == Sent(s1, [c |-> "get_size", key |-> 0, args |-> << >>,
                             targets |-> vw, ok |-> TRUE])
         IN IF Image(rank_map) # 0 .. (comm_size - 1)
            THEN RaiseAt(s2, "ValueError", 86)
            ELSE LET Create(s3) ==
                         _execute([s3 EXCEPT !.comm_key[c] = s3.ret, !.has_comm_key[c] = TRUE],
                                  c, [c |-> "create_comm_with_list", key |-> s3.ret,
                                      args |-> ranks], vw)
                 IN Create(_generate_key_name(s2))

\* A _set_engine_rank_mapping that takes each engine's rank in COMM_PRIVATE
\* for its rank in the new communicator, and asserts nothing.
set_engine_rank_mapping_private(st, c) ==
    IF Failed(st) THEN st
    ELSE [st EXCEPT !.target_to_rank[c] =
             [e \in SeqToSet(st.targets[c]) |-> COMM_PRIVATE[e]]]

\* A _set_engine_rank_mapping that leaves the key of the ranks where it is:
\* no delete_key(rank) after the pull.
set_engine_rank_mapping_keep_key(st, c) ==
    IF Failed(st) THEN st
    ELSE LET tg == st.targets[c]
             Asserts(s4) ==
                 IF SeqToSet(tg) # DOMAIN s4.target_to_rank[c]
                 THEN RaiseAt(s4, "AssertionError", 66)
                 ELSE IF 0 .. (Len(tg) - 1) # Image(s4.target_to_rank[c])
                 THEN RaiseAt(s4, "AssertionError", 67)
                 ELSE s4
             Mapping(s3) ==
                 IF Failed(s3) THEN s3
                 ELSE Asserts([s3 EXCEPT !.target_to_rank[c] =
                          [e \in SeqToSet(tg) |->
                             s3.ret[CHOOSE i \in 1 .. Len(tg) : tg[i] = e].val]])
             Ranks(s1, rank) ==
                 Mapping(_pull(_execute(s1, c, [c |-> "Get_rank", key |-> rank,
                                                args |-> << s1.comm_key[c] >>], tg),
                               c, rank))
             Key(s1) == Ranks(s1, s1.ret)
         IN Key(Local(_generate_key(st, c, tg)))

\* Context._set_engine_rank_mapping; get_dict() raises ValueError when two
\* of the results come from one engine.
_set_engine_rank_mapping(st, c) ==
    IF Failed(st) THEN st
    ELSE LET tg == st.targets[c]
             Asserts(s4) ==
                 IF Failed(s4) THEN s4
                 ELSE IF SeqToSet(tg) # DOMAIN s4.target_to_rank[c]
                 THEN RaiseAt(s4, "AssertionError", 66)
                 ELSE IF 0 .. (Len(tg) - 1) # Image(s4.target_to_rank[c])
                 THEN RaiseAt(s4, "AssertionError", 67)
                 ELSE s4
             Mapping(s3, rank) ==
                 IF Failed(s3) THEN s3
                 ELSE IF Cardinality(SeqToSet(tg)) < Len(tg)
                 THEN RaiseAt(s3, "ValueError", 64)
                 ELSE Asserts(delete_key(
                        [s3 EXCEPT !.target_to_rank[c] =
                            [e \in SeqToSet(tg) |->
                               s3.ret[CHOOSE i \in 1 .. Len(tg) :
                                        tg[i] = e /\ \A j \in (i + 1) .. Len(tg) : tg[j] # e].val]],
                        c, rank))
             Ranks(s1, rank) ==
                 Mapping(_pull(_execute(s1, c, [c |-> "Get_rank", key |-> rank,
                                                args |-> << s1.comm_key[c] >>], tg),
                               c, rank), rank)
             Key(s1) == Ranks(s1, s1.ret)
         IN Key(Local(_generate_key(st, c, tg)))

\* A Context.__init__ that sends the import to the view first and goes
\* through the targets argument afterwards.
Context_init_import_first(st, c, vw, tparam) ==
    LET chk == IF tparam.none THEN [targets |-> vw, ok |-> TRUE]
               ELSE checked_targets(tparam.list, vw)
        Checked(s1) ==
            IF ~chk.ok THEN RaiseAt(s1, "ValueError", 31)
            ELSE _set_engine_rank_mapping(
                     _make_intracomm([s1 EXCEPT !.key_records[c] = EmptyMap], c), c)
    IN Checked(Sent([st EXCEPT !.view[c] = vw, !.targets[c] = chk.targets],
                    [c |-> "import", key |-> 0, args |-> << >>,
                     targets |-> vw, ok |-> TRUE]))

\* Context.__init__(view, targets): vw is view.targets; tparam.none says
\* that targets is None, tparam.list is the list given otherwise.
Context_init(st, c, vw, tparam) ==
    LET chk == IF tparam.none THEN [targets |-> vw, ok |-> TRUE]
               ELSE checked_targets(tparam.list, vw)
        s0 == [st EXCEPT !.view[c] = vw, !.targets[c] = chk.targets]
    IN IF ~chk.ok THEN RaiseAt(s0, "ValueError", 31)
       ELSE LET s1 == Sent(s0, [c |-> "import", key |-> 0, args |-> << >>,
                                targets |-> vw, ok |-> TRUE])
                s2 == [s1 EXCEPT !.key_records[c] = EmptyMap]
            IN _set_engine_rank_mapping(_make_intracomm(s2, c), c)

\* ------------------------------------------------------------ array creation
\* Context.zeros (ones and empty differ in the name of the local function)
zeros(st, c, values) ==
    LET Result(s3, da_key) == IF Failed(s3) THEN s3 ELSE [s3 EXCEPT !.ret = da_key]
        Create(s2, keys, da_key) ==
            Result(_execute(s2, c, [c |-> "zeros", key |-> da_key,
                                    args |-> keys \o << s2.comm_key[c] >>], s2.targets[c]),
                   da_key)
        Key(s2, keys) == Create(s2, keys, s2.ret)
        Pushed(s1) == Key(_generate_key(s1, c, s1.targets[c]), s1.ret)
    IN Pushed(_key_and_push(st, c, values))

\* Context.load
load(st, c) ==
    LET Result(s2, da_key) == IF Failed(s2) THEN s2 ELSE [s2 EXCEPT !.ret = da_key]
        Key(s1, da_key) ==
            Result(_execute(s1, c, [c |-> "load", key |-> da_key,
                                    args |-> << s1.comm_key[c] >>], s1.targets[c]),
                   da_key)
        Fresh(s1) == Key(s1, s1.ret)
    IN Fresh(_generate_key(st, c, st.targets[c]))

\* ------------------------------------------------------------ dispatch
\* Operands: a DistArray (key, context), a scalar, or any other object.
DistArray(key, context) == [t |-> "DistArray", key |-> key, context |-> context, val |-> 0]
Scalar(v) == [t |-> "scalar", key |-> 0, context |-> 0, val |-> v]
Other == [t |-> "other", key |-> 0, context |-> 0, val |-> 0]

\* A unary_proxy without the isinstance test: whatever a is, its key is used.
unary_proxy_unchecked(st, context, a) ==
    IF a.t = "DistArray" /\ context # a.context THEN RaiseAt(st, "TypeError", 469)
    ELSE LET Result(s2, new_key) == IF Failed(s2) THEN s2 ELSE [s2 EXCEPT !.ret = new_key]
             Key(s1, new_key) ==
                 Result(_execute(s1, context, [c |-> "negative", key |-> new_key,
                                               args |-> << a.key >>], s1.targets[context]),
                        new_key)
             Fresh(s1) == Key(s1, s1.ret)
         IN Fresh(_generate_key(st, context, st.targets[context]))

\* unary_proxy(context, a, 'negative')
unary_proxy(st, context, a) ==
    IF a.t # "DistArray" THEN RaiseAt(st, "TypeError", 467)
    ELSE IF context # a.context THEN RaiseAt(st, "TypeError", 469)
    ELSE LET ctx == a.context
             Result(s2, new_key) == IF Failed(s2) THEN s2 ELSE [s2 EXCEPT !.ret = new_key]
             Key(s1, new_key) ==
                 Result(_execute(s1, ctx, [c |-> "negative", key |-> new_key,
                                           args |-> << a.key >>], s1.targets[ctx]),
                        new_key)
             Fresh(s1) == Key(s1, s1.ret)
         IN Fresh(_generate_key(st, ctx, st.targets[ctx]))

\* A tail of binary_proxy that computes in place: the result is bound under
\* a_key and no key is generated for it.
binary_dispatch_in_place(st, context, a_key, b_key) ==
    IF Failed(st) THEN st
    ELSE LET Result(s2) == IF Failed(s2) THEN s2 ELSE [s2 EXCEPT !.ret = a_key]
         IN Result(_execute(st, context, [c |-> "add", key |-> a_key,
                                          args |-> << a_key, b_key >>],
                            st.targets[context]))

\* A tail of binary_proxy that sends the compute request to the first
\* engine of self.targets only.
binary_dispatch_first_target(st, context, a_key, b_key) ==
    IF Failed(st) THEN st
    ELSE LET Result(s2, new_key) == IF Failed(s2) THEN s2 ELSE [s2 EXCEPT !.ret = new_key]
             Key(s1, new_key) ==
                 Result(_execute(s1, context, [c |-> "add", key |-> new_key,
                                               args |-> << a_key, b_key >>],
                                 SubSeq(s1.targets[context], 1, 1)),
                        new_key)
             Fresh(s1) == Key(s1, s1.ret)
         IN Fresh(_generate_key(st, context, st.targets[context]))

\* The tail of binary_proxy, once a_key and b_key are known (lines 510-522).
binary_dispatch(st, context, a_key, b_key) ==
    IF Failed(st) THEN st
    ELSE LET Result(s2, new_key) == IF Failed(s2) THEN s2 ELSE [s2 EXCEPT !.ret = new_key]
             Key(s1, new_key) ==
                 Result(_execute(s1, context, [c |-> "add", key |-> new_key,
                                               args |-> << a_key, b_key >>],
                                 s1.targets[context]),
                        new_key)
             Fresh(s1) == Key(s1, s1.ret)
         IN Fresh(_generate_key(st, context, st.targets[context]))

\* A binary_proxy that stores the scalar operand before it compares the
\* contexts.
binary_proxy_late_check(st, context, a, b) ==
    LET is_a_dap == (a.t = "DistArray")
        is_b_dap == (b.t = "DistArray")
    IN IF is_a_dap /\ is_b_dap
       THEN IF b.context # a.context THEN RaiseAt(st, "TypeError", 489)
            ELSE IF context # a.context THEN RaiseAt(st, "TypeError", 492)
            ELSE binary_dispatch(st, context, a.key, b.key)
       ELSE IF is_a_dap /\ b.t = "scalar"
       THEN LET Stored(s1) == IF context # a.context THEN RaiseAt(s1, "TypeError", 498)
                              ELSE binary_dispatch(s1, context, a.key, s1.ret[1])
            IN Stored(_key_and_push(st, context, << b.val >>))
       ELSE IF is_b_dap /\ a.t = "scalar"
       THEN LET Stored(s1) == IF context # b.context THEN RaiseAt(s1, "TypeError", 504)
                              ELSE binary_dispatch(s1, context, s1.ret[1], b.key)
            IN Stored(_key_and_push(st, context, << a.val >>))
       ELSE RaiseAt(st, "TypeError", 509)

\* binary_proxy(context, a, b, 'add')
binary_proxy(st, context, a, b) ==
    LET is_a_dap == (a.t = "DistArray")
        is_b_dap == (b.t = "DistArray")
    IN IF is_a_dap /\ is_b_dap
       THEN IF b.context # a.context THEN RaiseAt(st, "TypeError", 489)
            ELSE IF context # a.context THEN RaiseAt(st, "TypeError", 492)
            ELSE binary_dispatch(st, context, a.key, b.key)
       ELSE IF is_a_dap /\ b.t = "scalar"
       THEN IF context # a.context THEN RaiseAt(st, "TypeError", 498)
            ELSE LET Stored(s1) == binary_dispatch(s1, context, a.key, s1.ret[1])
                 IN Stored(_key_and_push(st, context, << b.val >>))
       ELSE IF is_b_dap /\ a.t = "scalar"
       THEN IF context # b.context THEN RaiseAt(st, "TypeError", 504)
            ELSE LET Stored(s1) == binary_dispatch(s1, context, s1.ret[1], b.key)
                 IN Stored(_key_and_push(st, context, << a.val >>))
       ELSE RaiseAt(st, "TypeError", 509)


\* ------------------------------------------------------------ the inputs
\* client[:] and client[:1]
AllEngines == Ascending(Engines)
Views == {AllEngines, SubSeq(AllEngines, 1, 1)}

\* targets=None, or a list of engine ids (NEngines is an id no engine has;
\* one list names engine 0 twice)
NoTargets == [none |-> TRUE, list |-> << >>]
TargetList(l) == [none |-> FALSE, list |-> l]
TargetParams ==
    {NoTargets, TargetList(<< 0, 1 >>), TargetList(<< NEngines - 1, NEngines - 2 >>),
     TargetList(<< 0, NEngines >>), TargetList(<< 0, 0 >>)}

\* The target lists that name an engine of the view vw more than once.
RepeatedTarget(vw) ==
    {tparam \in TargetParams :
        /\ ~tparam.none
        /\ SeqToSet(tparam.list) \subseteq SeqToSet(vw)
        /\ Cardinality(SeqToSet(tparam.list)) < Len(tparam.list)}

\* The rank each engine has in COMM_PRIVATE: the engines in order, or reversed.
RankMaps == {[e \in Engines |-> e], [e \in Engines |-> NEngines - 1 - e]}

\* The keys Context c has handed to its callers so far.
Issued(c) ==
    {drawn[i].name : i \in {j \in 1 .. Len(drawn) : drawn[j].by = c /\ ~drawn[j].local}}

\* Every operand a client can pass to a ufunc of a Context: a DistArray
\* (key, context) for a key that context handed out, a scalar, something else.
Operands ==
    UNION {{DistArray(k, c) : k \in Issued(c)} : c \in Contexts} \cup {Scalar(7), Other}

\* The operands the actions pass to Context c: as Operands, with one
\* DistArray for each other Context (the one of its first key).
OperandsFor(c) ==
    {x \in Operands :
        (x.t = "DistArray" /\ x.context # c) => \A k \in Issued(x.context) : x.key <= k}

\* ------------------------------------------------------------ the actions
\* The program state as a record, before a call.
Start ==
    [globals |-> globals, view |-> view, targets |-> targets,
     key_records |-> key_records, has_comm_key |-> has_comm_key,
     comm_key |-> comm_key, target_to_rank |-> target_to_rank,
     drawn |-> drawn,
     err |-> "none", line |-> 0, ret |-> 0, calls |-> << >>]

\* No Context built, nothing bound on the engines.
Blank ==
    [globals |-> [e \in Engines |-> EmptyMap],
     view |-> [c \in Contexts |-> << >>],
     targets |-> [c \in Contexts |-> << >>],
     key_records |-> [c \in Contexts |-> EmptyMap],
     has_comm_key |-> [c \in Contexts |-> FALSE],
     comm_key |-> [c \in Contexts |-> None],
     target_to_rank |-> [c \in Contexts |-> EmptyMap],
     drawn |-> << >>,
     err |-> "none", line |-> 0, ret |-> 0, calls |-> << >>]

\* A thread that is not inside _generate_key.
Idle == [at |-> "idle", context |-> 0, key |-> None, targets |-> << >>]

\* The record of a call that ended in st.
CallRecord(st, op, c, arg) ==
    [op |-> op, context |-> c, arg |-> arg, err |-> st.err, line |-> st.line]

\* The state after a call that ended in st.
Commit(st, op, c, arg) ==
    /\ Len(st.drawn) <= limit
    /\ globals' = st.globals
    /\ view' = st.view
    /\ targets' = st.targets
    /\ key_records' = st.key_records
    /\ has_comm_key' = st.has_comm_key
    /\ comm_key' = st.comm_key
    /\ target_to_rank' = st.target_to_rank
    /\ drawn' = st.drawn
    /\ last' = CallRecord(st, op, c, arg)
    /\ UNCHANGED << COMM_PRIVATE, limit, thread >>

Live(c) == status[c] = "live"

Construct(c) ==
    /\ status[c] = "none"
    /\ \E vw \in Views, tparam \in TargetParams :
          LET Done(st) ==
                  /\ Commit(st, "Context", c, 0)
                  /\ status' = [status EXCEPT ![c] = IF Failed(st) THEN "failed" ELSE "live"]
          IN Done(Context_init(Start, c, vw, tparam))

GenerateKey(c) ==
    /\ Live(c)
    /\ Commit(_generate_key(Start, c, targets[c]), "generate_key", c, 0)
    /\ UNCHANGED status

\* self._push({key: value}): the store a caller of _generate_key follows it with
Push(c) ==
    /\ Live(c)
    /\ \E k \in DOMAIN key_records[c], v \in Scalars :
          /\ \A i \in 1 .. Len(targets[c]) : k \notin DOMAIN globals[targets[c][i]]
          /\ Commit(_push(Start, c, [x \in {k} |-> IntVal(v)]), "push", c, 0)
    /\ UNCHANGED status

KeyAndPush(c) ==
    /\ Live(c)
    /\ \E values \in {<< >>, << 5 >>, << 5, 7 >>} :
          Commit(_key_and_push(Start, c, values), "key_and_push", c, 0)
    /\ UNCHANGED status

DeleteKey(c) ==
    /\ Live(c)
    /\ \E i \in 1 .. Len(drawn) :
          Commit(delete_key(Start, c, drawn[i].name), "delete_key", c, drawn[i].name)
    /\ UNCHANGED status

CleanupKeys(c) ==
    /\ Live(c)
    /\ \E order \in KeyOrders(Start, c) :
          Commit(cleanup_keys(Start, c, order), "cleanup_keys", c, 0)
    /\ UNCHANGED status

GetEngineKeys(c) ==
    /\ Live(c)
    /\ Commit(get_engine_keys(Start, c), "get_engine_keys", c, 0)
    /\ UNCHANGED status

GetLeftoverKeys(c) ==
    /\ Live(c)
    /\ Commit(get_leftover_keys(Start, c), "get_leftover_keys", c, 0)
    /\ UNCHANGED status

PurgeKeys(c) ==
    /\ Live(c)
    /\ Commit(purge_keys(Start, c), "purge_keys", c, 0)
    /\ UNCHANGED status

CleanupKeysChecked(c) ==
    /\ Live(c)
    /\ \E check \in BOOLEAN, order \in KeyOrders(Start, c) :
          Commit(cleanup_keys_checked(Start, c, check, order), "cleanup_keys_checked", c, 0)
    /\ UNCHANGED status

ClearCommKey(c) ==
    /\ Live(c)
    /\ Commit(clear_comm_key(Start, c), "clear_comm_key", c, 0)
    /\ UNCHANGED status

Load(c) ==
    /\ Live(c)
    /\ Commit(load(Start, c), "load", c, 0)
    /\ UNCHANGED status

Unary(c) ==
    /\ Live(c)
    /\ \E a \in OperandsFor(c) :
          Commit(unary_proxy(Start, c, a), "unary_proxy", c, << a.t >>)
    /\ UNCHANGED status

Binary(c) ==
    /\ Live(c)
    /\ \E a \in OperandsFor(c), b \in OperandsFor(c) :
          Commit(binary_proxy(Start, c, a, b), "binary_proxy", c, << a.t, b.t >>)
    /\ UNCHANGED status

\* ------------------------------------------------------------ Spec
\* The Contexts the coordinator has built when a behaviour starts:
\* Context(view) for the odd ones, Context(view, targets=[0, 1]) for the
\* even ones, built one after the other over client[:].
InitParam(c) == IF c % 2 = 1 THEN NoTargets ELSE TargetList(<< 0, 1 >>)

RECURSIVE Built(_)
Built(n) ==
    IF n = 0 THEN Blank
    ELSE [Context_init(Built(n - 1), n, AllEngines, InitParam(n)) EXCEPT !.calls = << >>]

\* The state in which the first n Contexts have been built.
InitBuilt(n, draws) ==
    /\ COMM_PRIVATE = [e \in Engines |-> NEngines - 1 - e]
    /\ LET From(st) ==
              /\ globals = st.globals
              /\ view = st.view
              /\ targets = st.targets
              /\ key_records = st.key_records
              /\ has_comm_key = st.has_comm_key
              /\ comm_key = st.comm_key
              /\ target_to_rank = st.target_to_rank
              /\ drawn = st.drawn
              /\ limit = Len(st.drawn) + draws
              /\ status = [c \in Contexts |-> IF c > n THEN "none"
                                              ELSE IF Failed(st) THEN "failed" ELSE "live"]
              /\ last = CallRecord(st, "Context", n, 0)
              /\ thread = [t \in Threads |-> Idle]
       IN From(Built(n))

\* One Context over the whole cluster.
Init == InitBuilt(1, MaxDraws)

Next ==
    \E c \in Contexts :
        \/ GenerateKey(c)
        \/ Push(c)
        \/ KeyAndPush(c)
        \/ DeleteKey(c)
        \/ CleanupKeys(c)
        \/ GetEngineKeys(c)
        \/ GetLeftoverKeys(c)
        \/ PurgeKeys(c)
        \/ CleanupKeysChecked(c)
        \/ ClearCommKey(c)
        \/ Load(c)
        \/ Unary(c)
        \/ Binary(c)

Spec == Init /\ [][Next]_vars

\* ------------------------------------------------------------ SpecTwo
\* Every Context of the process built: two Contexts share the engines.
InitTwo == InitBuilt(NContexts, MaxDrawsTwo)

SpecTwo == InitTwo /\ [][Next]_vars

\* ------------------------------------------------------------ SpecInit
\* The construction of Contexts, from a cluster on which nothing is bound.
InitNone ==
    /\ COMM_PRIVATE \in RankMaps
    /\ globals = Blank.globals
    /\ view = Blank.view
    /\ targets = Blank.targets
    /\ key_records = Blank.key_records
    /\ has_comm_key = Blank.has_comm_key
    /\ comm_key = Blank.comm_key
    /\ target_to_rank = Blank.target_to_rank
    /\ drawn = Blank.drawn
    /\ limit = 2 * NContexts + 1
    /\ status = [c \in Contexts |-> "none"]
    /\ last = CallRecord(Blank, "none", 0, 0)
    /\ thread = [t \in Threads |-> Idle]

NextInit ==
    \E c \in Contexts :
        \/ Construct(c)
        \/ GetEngineKeys(c)

SpecInit == InitNone /\ [][NextInit]_vars


\* ------------------------------------------------------------ SpecComm
\* The lists of ranks the MPI processes pass to create_comm_with_list:
\* every rank, two ranks in descending order, two in ascending order, one
\* rank; range(2 * max_size); range(10, max_size + 10); a list with one
\* rank that no process has.
NodeLists ==
    {[i \in 1 .. NEngines |-> i - 1], << NEngines - 1, NEngines - 2 >>, << 0, 1 >>, << 1 >>,
     [i \in 1 .. (2 * NEngines) |-> i - 1], [i \in 1 .. NEngines |-> i + 9],
     << 0, NEngines >>}

\* Every process of COMM_PRIVATE calls create_comm_with_list(nodes) and binds
\* the result to a new name.
CreateComm ==
    /\ \E nodes \in NodeLists :
          LET Bound(s1) ==
                  Commit(_execute(s1, 0, [c |-> "create_comm_with_list", key |-> s1.ret,
                                          args |-> nodes], AllEngines),
                         "create_comm_with_list", 0, nodes)
          IN Bound(_generate_key_name(Start))
    /\ UNCHANGED status

NextComm == CreateComm

SpecComm == InitNone /\ [][NextComm]_vars

\* ------------------------------------------------------------ SpecThreads
\* Threads of the coordinator process call _generate_key() of the Contexts
\* with no lock around the calls: a thread switch can come between the two
\* statements of the method.

\* Thread t enters c._generate_key(): targets = self.targets, and
\* key = self._generate_key_name().
ThreadName(t, c) ==
    /\ thread[t].at = "idle"
    /\ Live(c)
    /\ Len(drawn) < limit
    /\ LET Named(st) ==
              /\ drawn' = st.drawn
              /\ thread' = [thread EXCEPT ![t] = [at |-> "named", context |-> c,
                                                  key |-> st.ret, targets |-> targets[c]]]
       IN Named(_generate_key_name(Start))
    /\ UNCHANGED << COMM_PRIVATE, globals, status, view, targets, key_records,
                    has_comm_key, comm_key, target_to_rank, limit, last >>

\* Thread t goes on: self.key_records[key] = targets; return key.
ThreadRecord(t) ==
    /\ thread[t].at = "named"
    /\ LET c == thread[t].context
           Recorded(st) ==
              /\ key_records' = st.key_records
              /\ drawn' = [st.drawn EXCEPT ![thread[t].key].by = c]
              /\ last' = CallRecord(st, "generate_key", c, st.ret)
       IN Recorded(generate_key_record(Start, c, thread[t].key, thread[t].targets))
    /\ thread' = [thread EXCEPT ![t].at = "returned"]
    /\ UNCHANGED << COMM_PRIVATE, globals, status, view, targets,
                    has_comm_key, comm_key, target_to_rank, limit >>

\* The caller in thread t has taken the key; the thread may call again.
ThreadReturn(t) ==
    /\ thread[t].at = "returned"
    /\ thread' = [thread EXCEPT ![t] = Idle]
    /\ UNCHANGED << COMM_PRIVATE, globals, status, view, targets, key_records,
                    has_comm_key, comm_key, target_to_rank, drawn, limit, last >>

InitThreads == InitBuilt(NContexts, MaxDrawsThreads)

NextThreads ==
    \E t \in Threads :
        \/ \E c \in Contexts : ThreadName(t, c)
        \/ ThreadRecord(t)
        \/ ThreadReturn(t)

SpecThreads == InitThreads /\ [][NextThreads]_vars

\* ================================================================ claims
LiveContexts == {c \in Contexts : status[c] = "live"}

\* The names Context c has entered in its key_records at some time.
Booked(c) == {drawn[i].name : i \in {j \in 1 .. Len(drawn) : drawn[j].by = c}}

\* The engines on which name k is bound.
BoundOn(k) == {e \in Engines : k \in DOMAIN globals[e]}

C2_RegistryMatchesEngines ==
    \A c \in LiveContexts : \A k \in DOMAIN key_records[c] :
        BoundOn(k) = SeqToSet(key_records[c][k])

\* C3 (as claimed): cleanup_keys completes without error in every state, and
\* the registry is empty when it returns.
C3_CleanupSucceeds ==
    last.op = "cleanup_keys" =>
        /\ last.err = "none"
        /\ DOMAIN key_records[last.context] = {}

\* C4 (as claimed): once cleanup_keys has returned, get_engine_keys returns
\* an empty mapping: no '__distarray' name is bound on an engine of the Context.
C4_NothingLeftAfterCleanup ==
    (last.op = "cleanup_keys" /\ last.err = "none") =>
        LET r == get_engine_keys(Start, last.context)
        IN /\ ~Failed(r)
           /\ DOMAIN r.ret = {}

\* C4 (amended): once cleanup_keys has returned, get_engine_keys reports no
\* key the Context ever entered in its key_records; it does report the
\* Context's _comm_key, on every engine of the Context, as long as
\* clear_comm_key has not been called.
C4_NoBookedKeyLeftAfterCleanup ==
    (last.op = "cleanup_keys" /\ last.err = "none") =>
        LET c == last.context
            r == get_engine_keys(Start, c)
        IN /\ ~Failed(r)
           /\ DOMAIN r.ret \cap Booked(c) = {}
           /\ comm_key[c] # None =>
                 /\ comm_key[c] \in DOMAIN r.ret
                 /\ r.ret[comm_key[c]] = targets[c]

\* C4 witness: cleanup_keys has returned on a Context that had handed out keys.
C4_Witness ==
    /\ last.op = "cleanup_keys" /\ last.err = "none"
    /\ Issued(last.context) # {}
    /\ comm_key[last.context] # None

\* C5: delete_key on a key that is not in key_records raises KeyError, sends
\* nothing to the engines and changes neither key_records nor any engine's
\* names; so does the second of two delete_key calls on the same key.
C5_DeleteUnknownKey ==
    \A c \in LiveContexts :
        /\ \A k \in (1 .. (Len(drawn) + 1)) \ DOMAIN key_records[c] :
              LET st == delete_key(Start, c, k)
              IN /\ st.err = "KeyError"
                 /\ st.calls = << >>
                 /\ st.key_records = key_records
                 /\ st.globals = globals
        /\ \A k \in DOMAIN key_records[c] :
              LET s1 == delete_key(Start, c, k)
                  s2 == delete_key([s1 EXCEPT !.calls = << >>], c, k)
              IN ~Failed(s1) =>
                    /\ s2.err = "KeyError"
                    /\ s2.calls = << >>
                    /\ s2.key_records = s1.key_records
                    /\ s2.globals = s1.globals

\* C5 witness: delete_key has raised KeyError for a key the Context had
\* handed out and deleted before.
C5_Witness ==
    /\ last.op = "delete_key" /\ last.err = "KeyError"
    /\ last.arg \in Issued(last.context)
    /\ BoundOn(last.arg) = {}

\* A call that ended in st drew no key name, entered nothing in any
\* key_records, bound or unbound nothing on any engine and sent nothing.
NoEffect(st) ==
    /\ st.calls = << >>
    /\ st.drawn = drawn
    /\ st.key_records = key_records
    /\ st.globals = globals

\* The DistArrays of keys handed out by a Context other than c.
Foreign(c) == {x \in Operands : x.t = "DistArray" /\ x.context # c}

\* C6: unary_proxy and binary_proxy of a Context raise TypeError (context
\* mismatch) for a DistArray of another Context, and for two DistArrays of
\* different Contexts, also when the other operand is a scalar; the error
\* comes before any key is drawn and before anything is sent to the
\* engines: all key_records and all engines' names are unchanged.
C6_ContextMismatchFirst ==
    \A c \in LiveContexts :
        /\ \A a \in Foreign(c) :
              LET st == unary_proxy(Start, c, a)
              IN st.err = "TypeError" /\ st.line = 469 /\ NoEffect(st)
        /\ \A a \in Operands, b \in Operands :
              (a \in Foreign(c) \/ b \in Foreign(c)
               \/ (a.t = "DistArray" /\ b.t = "DistArray" /\ a.context # b.context)) =>
                 LET st == binary_proxy(Start, c, a, b)
                 IN /\ st.err = "TypeError"
                    /\ NoEffect(st)
                    /\ (a.t # "other" /\ b.t # "other") => st.line \in {489, 492, 498, 504}

\* C6 witness: binary_proxy was given the DistArray of another Context and a
\* scalar, and raised at the context comparison.
C6_Witness ==
    /\ last.op = "binary_proxy" /\ last.arg = << "DistArray", "scalar" >>
    /\ last.err = "TypeError" /\ last.line = 498
    /\ Issued(last.context) # {}

\* The compute requests among the calls sent to the engines.
Computes(st) == {i \in 1 .. Len(st.calls) : st.calls[i].c \in {"negative", "add"}}

\* A dispatch that ended in st without error entered n new keys in the
\* key_records of c, sent one compute request, and left the key_records
\* entry and the value on every engine of the operand keys K as they were.
DispatchEffect(st, c, n, K) ==
    ~Failed(st) =>
        /\ DOMAIN key_records[c] \subseteq DOMAIN st.key_records[c]
        /\ Cardinality(DOMAIN st.key_records[c] \ DOMAIN key_records[c]) = n
        /\ \A d \in Contexts \ {c} : st.key_records[d] = key_records[d]
        /\ Cardinality(Computes(st)) = 1
        /\ \A k \in K :
              /\ k \in DOMAIN st.key_records[c] <=> k \in DOMAIN key_records[c]
              /\ k \in DOMAIN key_records[c] => st.key_records[c][k] = key_records[c][k]
              /\ \A e \in Engines :
                    /\ k \in DOMAIN st.globals[e] <=> k \in DOMAIN globals[e]
                    /\ k \in DOMAIN globals[e] => st.globals[e][k] = globals[e][k]

\* The number of scalars among the operands of a dispatch.
NScalars(ops) == Cardinality({i \in 1 .. Len(ops) : ops[i].t = "scalar"})

\* The keys of the DistArrays among the operands.
OperandKeys(ops) == {ops[i].key : i \in {j \in 1 .. Len(ops) : ops[j].t = "DistArray"}}

\* C7 (as claimed): every successful unary_proxy and binary_proxy, whatever
\* the shape of its operands, enters exactly one new key in key_records,
\* sends exactly one compute request, and leaves the operands' keys alone.
C7_OneKeyOneCompute ==
    \A c \in LiveContexts :
        /\ \A a \in Operands :
              DispatchEffect(unary_proxy(Start, c, a), c, 1, OperandKeys(<< a >>))
        /\ \A a \in Operands, b \in Operands :
              DispatchEffect(binary_proxy(Start, c, a, b), c, 1, OperandKeys(<< a, b >>))

\* C7 (amended): every successful unary_proxy and binary_proxy enters one new
\* key for the result plus one new key for each scalar operand, sends exactly
\* one compute request, and leaves the operands' keys alone.
C7_OneKeyPerScalarAndResult ==
    \A c \in LiveContexts :
        /\ \A a \in Operands :
              DispatchEffect(unary_proxy(Start, c, a), c, 1, OperandKeys(<< a >>))
        /\ \A a \in Operands, b \in Operands :
              DispatchEffect(binary_proxy(Start, c, a, b), c,
                             1 + NScalars(<< a, b >>), OperandKeys(<< a, b >>))

\* C7 witness: binary_proxy of a scalar and a DistArray has returned.
C7_Witness ==
    /\ last.op = "binary_proxy" /\ last.arg = << "scalar", "DistArray" >>
    /\ last.err = "none"

\* binary_proxy of the DistArray of key `key` and the scalar v ended in st:
\* the first call pushed v under one key no one had drawn before to all of
\* self.targets, the second is the compute request on that key and `key`;
\* the scalar's key is bound to v on every target, and when `key` was bound
\* on every target the compute request found all its arguments.
ScalarStored(st, c, key, v, scalar_second) ==
    /\ Len(st.calls) = 2
    /\ st.calls[1].c = "push" /\ st.calls[1].targets = targets[c]
    /\ Len(st.calls[1].args) = 1
    /\ LET k == st.calls[1].args[1]
       IN /\ \A i \in 1 .. Len(drawn) : drawn[i].name # k
          /\ k \notin InUse(Start)
          /\ k \in DOMAIN st.key_records[c] /\ st.key_records[c][k] = targets[c]
          /\ \A e \in SeqToSet(targets[c]) :
                k \in DOMAIN st.globals[e] /\ st.globals[e][k] = IntVal(v)
          /\ st.calls[2].c = "add" /\ st.calls[2].targets = targets[c]
          /\ st.calls[2].args = IF scalar_second THEN << key, k >> ELSE << k, key >>
    /\ (\A e \in SeqToSet(targets[c]) : key \in DOMAIN globals[e]) =>
          st.calls[2].ok /\ ~Failed(st)

\* C8: in binary_proxy with one DistArray and one scalar, the scalar is
\* pushed under a freshly generated key to every engine of self.targets
\* before the compute request is sent, so that every key the request names
\* is bound on every engine that runs it (the DistArray's key being bound).
C8_ScalarStoredBeforeCompute ==
    \A c \in LiveContexts : \A k \in Issued(c) : \A v \in Scalars :
        /\ ScalarStored(binary_proxy(Start, c, DistArray(k, c), Scalar(v)), c, k, v, TRUE)
        /\ ScalarStored(binary_proxy(Start, c, Scalar(v), DistArray(k, c)), c, k, v, FALSE)

\* C8 witness: binary_proxy of a DistArray and a scalar has returned.
C8_Witness ==
    /\ last.op = "binary_proxy" /\ last.arg = << "DistArray", "scalar" >>
    /\ last.err = "none"

\* The operands that are not DistArrays.
NonDistArrays == {Scalar(v) : v \in Scalars} \cup {Other}

\* C9: binary_proxy with no DistArray among its operands and unary_proxy
\* with an operand that is not a DistArray raise TypeError; no key is drawn,
\* nothing is pushed and no compute request is sent.
C9_NoDistArrayOperand ==
    \A c \in LiveContexts :
        /\ \A a \in NonDistArrays :
              LET st == unary_proxy(Start, c, a)
              IN st.err = "TypeError" /\ st.line = 467 /\ NoEffect(st)
        /\ \A a \in NonDistArrays, b \in NonDistArrays :
              LET st == binary_proxy(Start, c, a, b)
              IN st.err = "TypeError" /\ st.line = 509 /\ NoEffect(st)

\* C9 witness: binary_proxy was given two scalars and raised.
C9_Witness ==
    /\ last.op = "binary_proxy" /\ last.arg = << "scalar", "scalar" >>
    /\ last.err = "TypeError" /\ last.line = 509

\* Context.__init__ of c ended in st with ValueError, before the command
\* that creates the communicator: no name was drawn for _comm_key, nothing
\* is bound on any engine and key_records is empty.
Rejected(st, c) ==
    /\ st.err = "ValueError" /\ st.line \in {31, 86}
    /\ \A i \in 1 .. Len(st.calls) : st.calls[i].c # "create_comm_with_list"
    /\ ~st.has_comm_key[c]
    /\ st.drawn = drawn
    /\ st.globals = globals
    /\ DOMAIN st.key_records[c] = {}

\* C10: Context(view, targets) over a view whose engines' ranks in
\* COMM_PRIVATE are not exactly 0 .. size-1 raises ValueError, and raises it
\* before create_comm_with_list is sent: no _comm_key is bound on any engine
\* and key_records is empty.
C10_SubViewRejected ==
    \A c \in Contexts : status[c] = "none" =>
        \A vw \in Views, tparam \in TargetParams :
            {COMM_PRIVATE[e] : e \in SeqToSet(vw)} # 0 .. (NEngines - 1) =>
                LET st == Context_init(Start, c, vw, tparam)
                IN /\ Rejected(st, c)
                   /\ checked_targets(tparam.list, vw).ok => st.line = 86

\* C10 witness: the construction of a Context over client[:1] has raised
\* ValueError in _make_intracomm.
C10_Witness ==
    /\ last.op = "Context" /\ last.err = "ValueError" /\ last.line = 86
    /\ status[last.context] = "failed"
    /\ Len(view[last.context]) < NEngines

\* C11: for every Context that was built, over the whole view or over a
\* list of targets in any order, target_to_rank has the engines of
\* self.targets as its keys and 0 .. len(targets)-1 as its values, one engine
\* per value, and the value of an engine is the rank it has in the
\* communicator bound under _comm_key.
C11_RankMapIsGroupRank ==
    \A c \in LiveContexts :
        LET tg == targets[c]
            t2r == target_to_rank[c]
        IN /\ DOMAIN t2r = SeqToSet(tg)
           /\ Image(t2r) = 0 .. (Len(tg) - 1)
           /\ \A e \in DOMAIN t2r : \A f \in DOMAIN t2r : t2r[e] = t2r[f] => e = f
           /\ \A e \in DOMAIN t2r :
                 /\ comm_key[c] \in DOMAIN globals[e]
                 /\ globals[e][comm_key[c]] = CommVal(t2r[e])

\* C11 witness: a Context was built over targets given in descending order,
\* on engines whose ranks in COMM_PRIVATE are not their ids.
C11_Witness ==
    \E c \in LiveContexts :
        /\ last.op = "Context" /\ last.context = c /\ last.err = "none"
        /\ Len(targets[c]) = 2 /\ targets[c][1] > targets[c][2]
        /\ \E e \in Engines : COMM_PRIVATE[e] # e

\* The positions in st.calls of the calls of kind k.
CallsOf(st, k) == {i \in 1 .. Len(st.calls) : st.calls[i].c = k}

\* Context.__init__ of c over the view vw ended in st: create_comm_with_list
\* was sent once, to every engine of the view, which is every engine there
\* is, with the COMM_PRIVATE ranks of self.targets in the order of
\* self.targets; it was sent after the ranks and the size were fetched and
\* found to agree, and before any engine was asked for Get_rank; every
\* engine then binds _comm_key.
CreatedEverywhere(st, c, vw) ==
    /\ Cardinality(CallsOf(st, "create_comm_with_list")) = 1
    /\ \A i \in CallsOf(st, "create_comm_with_list") :
          /\ st.calls[i].targets = vw
          /\ SeqToSet(vw) = Engines
          /\ st.calls[i].key = st.comm_key[c]
          /\ st.calls[i].args = [j \in 1 .. Len(st.targets[c]) |-> COMM_PRIVATE[st.targets[c][j]]]
          /\ st.calls[i].ok
          /\ {COMM_PRIVATE[e] : e \in SeqToSet(vw)} = 0 .. (NEngines - 1)
          /\ \A j \in CallsOf(st, "get_rank") \cup CallsOf(st, "get_size") : j < i
          /\ CallsOf(st, "Get_rank") # {}
          /\ \A j \in CallsOf(st, "Get_rank") : i < j
    /\ \A e \in Engines :
          /\ st.comm_key[c] \in DOMAIN st.globals[e]
          /\ e \notin SeqToSet(st.targets[c]) => st.globals[e][st.comm_key[c]] = COMM_NULL

\* C12: while a Context is built, create_comm_with_list is sent once to every
\* engine of the view, the engines outside self.targets included, with one
\* and the same list: the COMM_PRIVATE ranks of self.targets, in their order.
\* It is sent after the comparison of the ranks with range(comm_size) has
\* passed and before any engine of self.targets is asked for its rank in the
\* new communicator. (A list that names an engine twice makes the
\* construction fail after all this, when the ranks are collected.)
C12_CreateSentToWholeView ==
    \A c \in Contexts : status[c] = "none" =>
        \A vw \in Views, tparam \in TargetParams :
            LET st == Context_init(Start, c, vw, tparam)
            IN IF st.err = "ValueError" /\ st.line \in {31, 86}
               THEN CallsOf(st, "create_comm_with_list") = {}
               ELSE /\ Failed(st) <=> tparam \in RepeatedTarget(vw)
                    /\ CreatedEverywhere(st, c, vw)

\* C12 witness: a Context was built over a proper sublist of the engines,
\* and an engine outside self.targets holds COMM_NULL under _comm_key.
C12_Witness ==
    \E c \in LiveContexts :
        /\ last.op = "Context" /\ last.context = c /\ last.err = "none"
        /\ \E e \in Engines \ SeqToSet(targets[c]) :
              /\ comm_key[c] \in DOMAIN globals[e]
              /\ globals[e][comm_key[c]] = COMM_NULL

\* The list l from its last entry to its first.
Reverse(l) == [i \in 1 .. Len(l) |-> l[Len(l) + 1 - i]]

\* C13 (as claimed): Context.__init__ brings the targets it is given into one
\* order: two Contexts built over the same view from a list of targets and
\* from the same targets in the opposite order have the same self.targets
\* and the same target_to_rank.
C13_PermutationsSameRankMap ==
    \A c \in Contexts : status[c] = "none" =>
        \A tparam \in TargetParams : ~tparam.none =>
            LET s1 == Context_init(Start, c, AllEngines, tparam)
                s2 == Context_init(Start, c, AllEngines, TargetList(Reverse(tparam.list)))
            IN (~Failed(s1) /\ ~Failed(s2)) =>
                  /\ s1.targets[c] = s2.targets[c]
                  /\ s1.target_to_rank[c] = s2.target_to_rank[c]

\* The tuples of values _key_and_push is given.
ValueLists == {<< >>, << 5 >>, << 5, 7 >>, << 7, 7 >>}

\* _key_and_push(*values) of Context c ended in st: it returned one key per
\* value, all different and none drawn before; each is in key_records with
\* self.targets and bound to its value on every engine of self.targets;
\* no other key_records entry and no other name on any engine has changed.
KeysPushed(st, c, values) ==
    LET keys == st.ret
        new == SeqToSet(keys)
    IN /\ ~Failed(st)
       /\ Len(keys) = Len(values)
       /\ \A i \in 1 .. Len(keys) : \A j \in 1 .. Len(keys) : i # j => keys[i] # keys[j]
       /\ \A i \in 1 .. Len(keys) :
             /\ keys[i] \notin InUse(Start)
             /\ \A j \in 1 .. Len(drawn) : drawn[j].name # keys[i]
             /\ keys[i] \in DOMAIN st.key_records[c]
             /\ st.key_records[c][keys[i]] = targets[c]
             /\ \A e \in SeqToSet(targets[c]) :
                   /\ keys[i] \in DOMAIN st.globals[e]
                   /\ st.globals[e][keys[i]] = IntVal(values[i])
       /\ DOMAIN st.key_records[c] = DOMAIN key_records[c] \cup new
       /\ \A k \in DOMAIN key_records[c] : st.key_records[c][k] = key_records[c][k]
       /\ \A d \in Contexts \ {c} : st.key_records[d] = key_records[d]
       /\ \A e \in Engines :
             /\ DOMAIN st.globals[e] =
                   DOMAIN globals[e] \cup (IF e \in SeqToSet(targets[c]) THEN new ELSE {})
             /\ \A k \in DOMAIN globals[e] : st.globals[e][k] = globals[e][k]

\* C14: _key_and_push(v1, ..., vn) returns n new keys, pairwise distinct, in
\* the order of the values; each key i is then in key_records with
\* self.targets and bound to vi on every engine of self.targets, and no
\* other entry or binding has changed; with no values it returns the empty
\* tuple and changes nothing.
C14_KeyAndPush ==
    \A c \in LiveContexts : \A values \in ValueLists :
        KeysPushed(_key_and_push(Start, c, values), c, values)

\* C14 witness: _key_and_push(5, 7) has returned: the last two names drawn
\* are bound to 5 and to 7 on the engines of the Context.
C14_Witness ==
    /\ last.op = "key_and_push" /\ last.err = "none"
    /\ Len(drawn) >= 2
    /\ \A e \in SeqToSet(targets[last.context]) :
          /\ drawn[Len(drawn) - 1].name \in DOMAIN globals[e]
          /\ globals[e][drawn[Len(drawn) - 1].name] = IntVal(5)
          /\ drawn[Len(drawn)].name \in DOMAIN globals[e]
          /\ globals[e][drawn[Len(drawn)].name] = IntVal(7)

\* The names bound on some engine of the set S.
BoundWithin(S) == UNION {DOMAIN globals[e] : e \in S}

\* C15 (as claimed): get_engine_keys returns, for every '__distarray' name
\* bound on some engine of the view, exactly the engines on which it is
\* bound, and no other name.
C15_ReportsWholeView ==
    \A c \in LiveContexts :
        LET st == get_engine_keys(Start, c)
        IN /\ ~Failed(st)
           /\ DOMAIN st.ret = BoundWithin(SeqToSet(view[c]))
           /\ \A k \in DOMAIN st.ret : SeqToSet(st.ret[k]) = BoundOn(k)

\* C15 (amended): get_engine_keys asks the engines of self.targets only: it
\* returns, for every '__distarray' name bound on some engine of
\* self.targets, in key_records or not, exactly the engines of self.targets
\* on which it is bound, each once, and no other name; an engine outside
\* self.targets is never named, whatever is bound on it.
C15_ReportsTargetsOnly ==
    \A c \in LiveContexts :
        LET st == get_engine_keys(Start, c)
            T == SeqToSet(targets[c])
        IN /\ ~Failed(st)
           /\ DOMAIN st.ret = BoundWithin(T)
           /\ \A k \in DOMAIN st.ret :
                 /\ SeqToSet(st.ret[k]) = BoundOn(k) \cap T
                 /\ Len(st.ret[k]) = Cardinality(BoundOn(k) \cap T)

\* C15 witness: get_engine_keys has returned on a Context whose targets
\* hold a key of its key_records, a name that is in no key_records, and a
\* name that is also bound on an engine outside its targets.
C15_Witness ==
    /\ last.op = "get_engine_keys" /\ last.err = "none"
    /\ LET c == last.context
           T == SeqToSet(targets[c])
       IN /\ \E k \in DOMAIN key_records[c] : BoundOn(k) \cap T # {}
          /\ \E k \in BoundWithin(T) : \A d \in Contexts : k \notin DOMAIN key_records[d]
          /\ \E k \in BoundWithin(T) : ~(BoundOn(k) \subseteq T)

\* The state a call ended in, as the next call finds it.
After(st) == [st EXCEPT !.calls = << >>, !.ret = 0]

\* purge_keys of Context c ended in st: it returned whether some name other
\* than self._comm_key was bound on an engine of self.targets; a
\* get_leftover_keys that follows returns the empty dict; _comm_key is
\* bound where it was, to what it was.
Purged(st, c) ==
    /\ ~Failed(st)
    /\ st.ret = (BoundWithin(SeqToSet(targets[c])) \ {comm_key[c]} # {})
    /\ LET Leftover(s2) == ~Failed(s2) /\ DOMAIN s2.ret = {}
       IN Leftover(get_leftover_keys(After(st), c))
    /\ st.comm_key[c] = comm_key[c]
    /\ \A e \in Engines :
          /\ comm_key[c] \in DOMAIN st.globals[e] <=> comm_key[c] \in DOMAIN globals[e]
          /\ comm_key[c] \in DOMAIN globals[e] =>
                st.globals[e][comm_key[c]] = globals[e][comm_key[c]]

\* C16: purge_keys returns True exactly when, at the time of the call, some
\* '__distarray' name other than the Context's own _comm_key is bound on an
\* engine of the Context, and False otherwise; after it has returned,
\* get_leftover_keys returns nothing and _comm_key is still bound.
C16_PurgeReportsLeftovers ==
    \A c \in LiveContexts : Purged(purge_keys(Start, c), c)

\* C16 witness: purge_keys has returned on a Context: its own _comm_key is
\* bound on all its targets, and the _comm_key another Context still holds
\* is no longer bound on any of them.
C16_Witness ==
    /\ last.op = "purge_keys" /\ last.err = "none"
    /\ LET c == last.context
           T == SeqToSet(targets[c])
       IN /\ comm_key[c] # None /\ T \subseteq BoundOn(comm_key[c])
          /\ \E d \in LiveContexts \ {c} :
                comm_key[d] # None /\ BoundOn(comm_key[d]) \cap T = {}

\* The names other than the _comm_key of c bound on an engine of
\* self.targets in the state st.
LeftoversIn(st, c) ==
    UNION {DOMAIN st.globals[e] : e \in SeqToSet(st.targets[c])} \ {st.comm_key[c]}

\* cleanup_keys_checked(check) of c ended in st, and cleanup_keys alone would
\* have ended in s1: AssertionError was raised exactly when check is True and
\* purge_keys found a name left after cleanup_keys; nothing was raised when
\* check is False; key_records is empty and no leftover name is bound.
CheckedCleanup(st, s1, c, check) ==
    /\ (st.err = "AssertionError") <=> (check /\ LeftoversIn(s1, c) # {})
    /\ Failed(st) => st.err = "AssertionError"
    /\ ~check => ~Failed(st)
    /\ DOMAIN st.key_records[c] = {}
    /\ LeftoversIn(st, c) = {}

\* C17 (as claimed): cleanup_keys_checked(check) raises AssertionError if and
\* only if check is True and purge_keys found a leftover name after
\* cleanup_keys; with check False it does not raise; in both cases, also
\* when it raises, key_records is empty and the leftover names have been
\* deleted from the engines.
C17_CheckedCleanup ==
    \A c \in LiveContexts : \A check \in BOOLEAN : \A order \in KeyOrders(Start, c) :
        CheckedCleanup(cleanup_keys_checked(Start, c, check, order),
                       cleanup_keys(Start, c, order), c, check)

\* Context c spans the four engines and has handed out two keys, ka bound
\* to x and kb bound to y on every engine; nothing else but its _comm_key
\* is bound.
TwoStored(c, ka, kb, x, y) ==
    /\ Len(targets[c]) = 4 /\ SeqToSet(targets[c]) = Engines
    /\ ka # kb
    /\ DOMAIN key_records[c] = {ka, kb}
    /\ \A e \in Engines :
          /\ DOMAIN globals[e] = {ka, kb, comm_key[c]}
          /\ globals[e][ka] = IntVal(x)
          /\ globals[e][kb] = IntVal(y)

\* From TwoStored: binary_proxy(add) on the two DistArrays returns a key
\* bound to x + y on every engine; delete_key on ka and on kb succeed; the
\* names get_engine_keys then reports are the result's key, on every
\* engine, and the names of `others`.
SumThenDelete(c, ka, kb, x, y, others) ==
    LET Reported(s3, r) ==
            /\ ~Failed(s3)
            /\ DOMAIN s3.ret = {r} \cup others
            /\ s3.ret[r] = targets[c]
        Deleted(s2, r) ==
            /\ ~Failed(s2)
            /\ Reported(get_engine_keys(After(s2), c), r)
        Added(s1) ==
            /\ ~Failed(s1)
            /\ s1.ret \notin {ka, kb}
            /\ \A e \in Engines :
                  /\ s1.ret \in DOMAIN s1.globals[e]
                  /\ s1.globals[e][s1.ret] = IntVal(x + y)
            /\ Deleted(delete_key(delete_key(After(s1), c, ka), c, kb), s1.ret)
    IN Added(binary_proxy(Start, c, DistArray(ka, c), DistArray(kb, c)))

\* C18 (as claimed): on a Context over 4 engines, after two keys were
\* generated and bound to x and y on all engines, binary_proxy(add) on the
\* two DistArrays succeeds and binds its result key to x + y on every engine
\* (12 for 5 and 7); after delete_key on both input keys the result key is
\* the only key get_engine_keys reports.
C18_OnlyResultDiscoverable ==
    \A c \in LiveContexts : \A ka \in Issued(c), kb \in Issued(c) : \A x \in Scalars, y \in Scalars :
        TwoStored(c, ka, kb, x, y) => SumThenDelete(c, ka, kb, x, y, {})

\* C18 (amended): the same, except that get_engine_keys then reports two
\* keys: the result key and the Context's _comm_key.
C18_ResultAndCommKeyDiscoverable ==
    \A c \in LiveContexts : \A ka \in Issued(c), kb \in Issued(c) : \A x \in Scalars, y \in Scalars :
        TwoStored(c, ka, kb, x, y) => SumThenDelete(c, ka, kb, x, y, {comm_key[c]})

\* C18 witness: on 4 engines, after the sum of 5 and 7 both input keys were
\* deleted: the one key left in key_records is bound to 12 on every engine.
C18_Witness ==
    /\ last.op = "delete_key" /\ last.err = "none"
    /\ Len(targets[last.context]) = 4
    /\ \E r \in Issued(last.context) :
          /\ DOMAIN key_records[last.context] = {r}
          /\ Cardinality(Issued(last.context)) = 3
          /\ \A e \in Engines :
                /\ DOMAIN globals[e] = {r, comm_key[last.context]}
                /\ globals[e][r] = IntVal(12)

\* What create_comm_with_list(nodes) gives the process of rank myrank among
\* NEngines processes: InvalidCommSizeError for a list longer than the
\* communicator, InvalidRankError for a list no longer than it that holds a
\* rank outside 0 .. size-1; otherwise a communicator, which is COMM_NULL
\* exactly when myrank is not in the list.
Validated(nodes, myrank) ==
    LET r == create_comm_with_list(myrank, NEngines, nodes)
        ranks_ok == \A i \in 1 .. Len(nodes) : nodes[i] \in 0 .. (NEngines - 1)
    IN /\ Len(nodes) > NEngines => ~r.ok /\ r.err = "InvalidCommSizeError"
       /\ (Len(nodes) <= NEngines /\ ~ranks_ok) => ~r.ok /\ r.err = "InvalidRankError"
       /\ (Len(nodes) <= NEngines /\ ranks_ok) =>
             /\ r.ok /\ r.err = "none"
             /\ (r.comm # COMM_NULL) <=> (myrank \in SeqToSet(nodes))
             /\ r.comm # COMM_NULL => r.comm.kind = "comm" /\ r.comm.val \in 0 .. (Len(nodes) - 1)

\* C19: create_comm_with_list(nodes) checks the list against the whole
\* communicator before it creates anything: a list longer than the
\* communicator gives InvalidCommSizeError, a rank outside 0 .. size-1 gives
\* InvalidRankError and no process binds anything; for a valid list the
\* processes whose rank is listed get a communicator and every other
\* process gets COMM_NULL.
C19_CreateCommValidates ==
    /\ \A nodes \in NodeLists : \A myrank \in 0 .. (NEngines - 1) : Validated(nodes, myrank)
    /\ last.op = "create_comm_with_list" =>
          LET k == drawn[Len(drawn)].name
              nodes == last.arg
          IN IF Len(nodes) <= NEngines /\ SeqToSet(nodes) \subseteq 0 .. (NEngines - 1)
             THEN /\ last.err = "none"
                  /\ \A e \in Engines :
                        /\ k \in DOMAIN globals[e]
                        /\ (globals[e][k] = COMM_NULL) <=> (COMM_PRIVATE[e] \notin SeqToSet(nodes))
             ELSE last.err = "RemoteError" /\ BoundOn(k) = {}

\* C19 witness: the processes have called create_comm_with_list with two of
\* the ranks: two of them hold a communicator, the others COMM_NULL.
C19_Witness ==
    /\ last.op = "create_comm_with_list" /\ last.err = "none"
    /\ Len(last.arg) = 2
    /\ LET k == drawn[Len(drawn)].name
       IN /\ Cardinality({e \in Engines : globals[e][k] # COMM_NULL}) = 2
          /\ Cardinality({e \in Engines : globals[e][k] = COMM_NULL}) = NEngines - 2

\* C20 (as claimed): after clear_comm_key has returned, the _comm_key the
\* Context held is bound on no engine of the view, the engines outside
\* self.targets included, on which create_comm_with_list bound it too.
C20_CommKeyGoneEverywhere ==
    \A c \in LiveContexts : comm_key[c] # None =>
        LET Cleared(st) ==
                ~Failed(st) => \A e \in Engines : comm_key[c] \notin DOMAIN st.globals[e]
        IN Cleared(clear_comm_key(Start, c))

\* C21 (as claimed): purge_keys removes unexpected names only: whenever it
\* is called, every key of key_records stays in key_records and stays bound,
\* to the same value, on the engines recorded for it, so that delete_key on
\* such a key still succeeds afterwards.
C21_PurgeKeepsTrackedKeys ==
    \A c \in LiveContexts :
        LET Kept(st) ==
                /\ ~Failed(st)
                /\ st.key_records[c] = key_records[c]
                /\ \A k \in DOMAIN key_records[c] : \A e \in SeqToSet(key_records[c][k]) :
                      k \in DOMAIN globals[e] =>
                         /\ k \in DOMAIN st.globals[e]
                         /\ st.globals[e][k] = globals[e][k]
                /\ \A k \in DOMAIN key_records[c] :
                      ~Failed(delete_key(Start, c, k)) => ~Failed(delete_key(After(st), c, k))
        IN Kept(purge_keys(Start, c))

\* The target lists with an id that no engine of the view vw has.
UnknownTarget(vw) ==
    {tparam \in TargetParams :
        ~tparam.none /\ \E i \in 1 .. Len(tparam.list) : tparam.list[i] \notin SeqToSet(vw)}

\* C22: Context(view, targets) with a target that is not in view.targets
\* raises ValueError in the loop over the targets, before anything is sent:
\* no import, no Get_rank, no create_comm_with_list reaches any engine, no
\* key name is generated and no name is bound on any engine.
C22_UnknownTargetRejectedFirst ==
    \A c \in Contexts : status[c] = "none" =>
        \A vw \in Views : \A tparam \in UnknownTarget(vw) :
            LET Rejected31(st) ==
                    /\ st.err = "ValueError" /\ st.line = 31
                    /\ st.calls = << >>
                    /\ st.drawn = drawn
                    /\ st.globals = globals
                    /\ st.key_records = key_records
                    /\ ~st.has_comm_key[c]
            IN Rejected31(Context_init(Start, c, vw, tparam))

\* C22 witness: the construction of a Context has raised the ValueError of
\* the loop over the targets.
C22_Witness ==
    /\ last.op = "Context" /\ last.err = "ValueError" /\ last.line = 31
    /\ status[last.context] = "failed"
    /\ \E tparam \in UnknownTarget(view[last.context]) :
          targets[last.context] = checked_targets(tparam.list, view[last.context]).targets

\* The names Context_init has drawn on the way from the current state to st.
NewNames(st) == {st.drawn[i].name : i \in (Len(drawn) + 1) .. Len(st.drawn)}

\* C23 (as claimed): after Context(view, targets) has returned, key_records
\* is empty and every engine has exactly one name bound, the _comm_key of
\* the new Context.
C23_OnlyCommKeyBound ==
    \A c \in Contexts : status[c] = "none" =>
        \A vw \in Views, tparam \in TargetParams :
            LET Clean(st) ==
                    ~Failed(st) =>
                        /\ st.key_records[c] = EmptyMap
                        /\ \A e \in Engines : DOMAIN st.globals[e] = {st.comm_key[c]}
            IN Clean(Context_init(Start, c, vw, tparam))

\* C23 (amended): after Context(view, targets) has returned, key_records is
\* empty; every engine has the names it had before, bound as before, and one
\* more, the _comm_key of the new Context; the key generated for the ranks
\* is bound on no engine and is in no key_records.
C23_OnlyCommKeyAdded ==
    \A c \in Contexts : status[c] = "none" =>
        \A vw \in Views, tparam \in TargetParams :
            LET Clean(st) ==
                    ~Failed(st) =>
                        /\ st.key_records[c] = EmptyMap
                        /\ st.has_comm_key[c] /\ st.comm_key[c] \in NewNames(st)
                        /\ \A e \in Engines :
                              /\ st.comm_key[c] \notin DOMAIN globals[e]
                              /\ DOMAIN st.globals[e] = DOMAIN globals[e] \cup {st.comm_key[c]}
                              /\ \A k \in DOMAIN globals[e] : st.globals[e][k] = globals[e][k]
                        /\ \E k \in NewNames(st) : k # st.comm_key[c]
                        /\ \A k \in NewNames(st) \ {st.comm_key[c]} :
                              /\ \A e \in Engines : k \notin DOMAIN st.globals[e]
                              /\ \A d \in Contexts : k \notin DOMAIN st.key_records[d]
            IN Clean(Context_init(Start, c, vw, tparam))

\* C23 witness: a Context has been built on engines that hold the _comm_key
\* of another Context: its key_records is empty and each engine has the two
\* _comm_keys and nothing else.
C23_Witness ==
    \E c \in LiveContexts : \E d \in LiveContexts \ {c} :
        /\ last.op = "Context" /\ last.context = c /\ last.err = "none"
        /\ key_records[c] = EmptyMap
        /\ \A e \in Engines : DOMAIN globals[e] = {comm_key[c], comm_key[d]}

\* What a query leaves: the engines' namespaces and every key_records as they
\* are now, and a result without the key the query generated for itself.
ReadOnly(st) ==
    ~Failed(st) =>
        /\ st.globals = globals
        /\ st.key_records = key_records
        /\ NewNames(st) # {}
        /\ NewNames(st) \cap DOMAIN st.ret = {}
        /\ \A k \in NewNames(st) : \A e \in Engines : k \notin DOMAIN st.globals[e]

\* C24: get_engine_keys and get_leftover_keys change nothing that can be
\* observed: after either has returned, key_records and the names bound on
\* each engine (with their values) are what they were before the call, and
\* the key generated to hold the lists of names is not in the result.
C24_QueriesReadOnly ==
    \A c \in LiveContexts :
        /\ ReadOnly(get_engine_keys(Start, c))
        /\ ReadOnly(get_leftover_keys(Start, c))

\* C24 witness: get_leftover_keys has returned in a Context that tracks a
\* key bound on its engines; the key drawn for the query is bound nowhere.
C24_Witness ==
    \E c \in LiveContexts :
        /\ last.op = "get_leftover_keys" /\ last.context = c /\ last.err = "none"
        /\ \E k \in DOMAIN key_records[c] : BoundOn(k) # {}
        /\ drawn[Len(drawn)].local
        /\ BoundOn(drawn[Len(drawn)].name) = {}
        /\ drawn[Len(drawn)].name \notin DOMAIN key_records[c]

NamesOf(b) ==
    (DOMAIN key_records[b]) \cup (IF comm_key[b] = None THEN {} ELSE {comm_key[b]})

\* Every name of Context b that is bound on an engine of b's targets is
\* bound there, to the same value, in st.
Spared(st, b) ==
    \A e \in SeqToSet(targets[b]) : \A k \in NamesOf(b) \cap DOMAIN globals[e] :
        k \in DOMAIN st.globals[e] /\ st.globals[e][k] = globals[e][k]

\* C26 (as claimed): with two Contexts a and b on the same engines, in any
\* state their calls have led to, cleanup_keys, purge_keys and
\* cleanup_keys_checked of a leave the keys b tracks and the _comm_key of b
\* bound on the engines of b, and cleanup_keys_checked(check=True) of a
\* raises AssertionError only when a name that is not one of b's is left
\* over on the engines of a.
C26_CleanupSparesOtherContext ==
    \A a \in LiveContexts : \A b \in LiveContexts \ {a} :
        /\ Spared(purge_keys(Start, a), b)
        /\ \A order \in KeyOrders(Start, a) :
              /\ Spared(cleanup_keys(Start, a, order), b)
              /\ Spared(cleanup_keys_checked(Start, a, FALSE, order), b)
              /\ Spared(cleanup_keys_checked(Start, a, TRUE, order), b)
              /\ cleanup_keys_checked(Start, a, TRUE, order).err = "AssertionError" =>
                    LeftoversIn(cleanup_keys(Start, a, order), a) \ NamesOf(b) # {}

\* C27 (as claimed): clear_comm_key called again after a call that succeeded
\* sends nothing to the engines, raises nothing and changes neither the
\* Context nor the engines.
C27_ClearCommKeyIdempotent ==
    \A c \in LiveContexts :
        LET Again(s1, s2) ==
                /\ s2.calls = << >>
                /\ ~Failed(s2)
                /\ s2.globals = s1.globals
                /\ s2.comm_key = s1.comm_key /\ s2.has_comm_key = s1.has_comm_key
                /\ s2.key_records = s1.key_records
            First(s1) == ~Failed(s1) => Again(s1, clear_comm_key(After(s1), c))
        IN First(clear_comm_key(Start, c))

\* The threads that are past the name generation of c._generate_key().
Holding(c) == {t \in Threads : thread[t].context = c /\ thread[t].at # "idle"}

\* C28: threads that call _generate_key() of one Context with no lock, and
\* are switched between its two statements in any way, get keys that differ;
\* when a call has returned its key is in key_records with self.targets as
\* its engines, and it stays there while other threads allocate: every key
\* name drawn by a call that has finished is in key_records of the Context
\* of that call. The two statements run in one go are _generate_key.
C28_ThreadsKeepAllocations ==
    /\ \A c \in LiveContexts :
          /\ \A t \in Holding(c) : \A u \in Holding(c) \ {t} : thread[t].key # thread[u].key
          /\ \A t \in Holding(c) :
                thread[t].at = "returned" =>
                    /\ thread[t].key \in DOMAIN key_records[c]
                    /\ key_records[c][thread[t].key] = targets[c]
          /\ \A i \in 1 .. Len(drawn) :
                drawn[i].by = c /\ ~drawn[i].local =>
                    /\ drawn[i].name \in DOMAIN key_records[c]
                    /\ key_records[c][drawn[i].name] = targets[c]
          /\ LET Both(s1) == generate_key_record(s1, c, s1.ret, targets[c])
                 Same(s2, s3) == s2.key_records = s3.key_records /\ s2.ret = s3.ret
             IN Same(Both(_generate_key_name(Start)), _generate_key(Start, c, targets[c]))
    /\ \A i \in 1 .. Len(drawn) :
          \/ drawn[i].by # 0
          \/ \E c \in Contexts : comm_key[c] = drawn[i].name
          \/ \E t \in Threads : thread[t].at = "named" /\ thread[t].key = drawn[i].name

\* C28 witness: two threads were inside _generate_key() of one Context at
\* the same time, the second drew its name before the first recorded its
\* own, and both calls have returned.
C28_Witness ==
    \E c \in LiveContexts : \E t \in Holding(c) : \E u \in Holding(c) \ {t} :
        /\ thread[t].at = "returned" /\ thread[u].at = "returned"
        /\ thread[u].key = thread[t].key + 1
        /\ last.op = "generate_key" /\ last.context = c /\ last.arg = thread[t].key

=============================================================================
